---- MODULE Spec2Model ----
(***************************************************************************)
(* Model of the agent loop of src/agent.js (class Agent) and of the        *)
(* decision parser of src/llm_providers.js (tryParseToolCall).             *)
(*                                                                         *)
(* Texts are sequences of string pieces: a piece is either a literal       *)
(* fragment of a template string of the source or one character of data.   *)
(* Concatenation of texts is \o, the empty text '' is << >>.               *)
(* A missing / undefined / empty scalar field is the empty string "".      *)
(***************************************************************************)
EXTENDS Integers, Sequences, FiniteSets, TLC

\* ------------------------------------------------------------------------
\* Bounds of the model
\* ------------------------------------------------------------------------

\* this.maxTurns (agent.js:18 sets 10; the field is configurable)
maxTurns == 2

\* most raw tool calls the planner proposes during one run, and so the
\* longest tool-call list of a decision
MaxProposed == 2

\* most calls of run() on one agent
MaxRuns == 2

\* the longest string given to sanitizeObservation alone, and the longest
\* string member of an object given to it
MaxLen == 3

\* the largest small value of this.obsTruncateChars of sanitizeObservation
\* alone, and of the runs of an agent with a small limit
MaxLimit == 3

\* the longest tools argument given to the constructor alone
MaxTools == 3

\* ------------------------------------------------------------------------
\* Program constants
\* ------------------------------------------------------------------------

\* this.toolTimeoutMs
toolTimeoutMs == 10000

\* this.obsTruncateChars
obsTruncateChars == 3000

\* the number of request attempts of getCompletion (attempt < 3)
maxAttempts == 3

\* the first backoff delay of getCompletion, in ms
baseDelayMs == 200

\* names of the tools the constructor receives (tools.js); one entry has no
\* function and is dropped by the filter of the constructor
tools ==
  << [hasFunction |-> TRUE,  name |-> "calculator"],
     [hasFunction |-> TRUE,  name |-> "create_file"],
     [hasFunction |-> FALSE, name |-> ""] >>

\* the keys of new Map((ts || []).filter((t) => t && t.function)
\*                      .map((t) => [t.function.name, t.function])):
\* the name of every entry that has a function, empty when the function
\* has no name or an empty one
registryOf(ts) == { ts[n].name : n \in { m \in DOMAIN ts : ts[m].hasFunction } }

\* this.registry of the agent built from tools
registry == registryOf(tools)

\* variant of registryHas: every named tool is taken to be registered
registryHasMutant(name) == name # ""

\* registry.get(name) is defined
registryHas(name) == name \in registry

\* ------------------------------------------------------------------------
\* Values
\* ------------------------------------------------------------------------

\* a JS value that is null / undefined
Null == [t |-> "null", s |-> << >>]

\* a JS string value
Str(s) == [t |-> "string", s |-> s]

\* the final message of run()
StuckMessage == << "I seem to be stuck in a loop. Please try rephrasing your query." >>

\* the content of the synthetic assistant turn of branch C
ReplanNote == << "No valid next action. Replanning with constraints." >>

\* String.prototype.toLowerCase on the stop reasons the model uses
toLowerCase(s) ==
  CASE s = "Done" -> "done"
    [] OTHER      -> s

\* variant of isFinal: only "final" ends the run
isFinalMutant(s) == toLowerCase(s) \in {"final"}

\* isFinal of run(): the stop reasons that end the run
isFinal(s) == toLowerCase(s) \in {"final", "stop", "completed", "end", "done"}

\* crypto.randomUUID(): the n-th identifier generated during the run
randomUUID(n) == "uuid-" \o ToString(n)

\* ------------------------------------------------------------------------
\* sanitizeObservation
\* ------------------------------------------------------------------------

\* the three .replace calls of escAndTrunc, applied to one piece
escapePiece(c) ==
  CASE c = "&" -> "&"
    [] c = "<" -> "<"
    [] c = ">" -> ">"
    [] OTHER   -> c

\* the one-character marker U+2026 that escAndTrunc appends
Ellipsis == "..."

\* const safe = s.replace(...).replace(...).replace(...)
escaped(s) == [n \in 1..Len(s) |-> escapePiece(s[n])]

\* variant of escAndTruncAt: a text of exactly lim characters is cut too
escAndTruncAtMutant(s, lim) ==
  LET safe == escaped(s)
  IN  IF Len(safe) >= lim
      THEN SubSeq(safe, 1, lim) \o << Ellipsis >>
      ELSE safe

\* escAndTrunc(s) for a string s, with limit = lim (a number >= 0)
escAndTruncAt(s, lim) ==
  LET safe == escaped(s)
  IN  IF Len(safe) > lim
      THEN SubSeq(safe, 1, lim) \o << Ellipsis >>
      ELSE safe

\* escAndTrunc(s) of an agent whose obsTruncateChars is the default
escAndTrunc(s) == escAndTruncAt(s, obsTruncateChars)

\* An object value is [t |-> "object", heap |-> h]: h[id] is the list of
\* the members of object id, each [key, val], val a string or a reference
\* [t |-> "ref", id |-> n] to object n; the value itself is object 1.

\* the text '[Circular]' the replacer returns, character by character
CircularMarker == << "[", "C", "i", "r", "c", "u", "l", "a", "r", "]" >>

\* the line break and indentation JSON.stringify(value, replacer, 2) puts
\* before an entry at depth d
Indent(d) == << "\n" >> \o [n \in 1..(2 * d) |-> " "]

\* JSON.stringify of a string value without characters to escape
quoted(s) == << "\"" >> \o s \o << "\"" >>

\* JSON.stringify(value, replacer, 2), lines 62-74: stringifyValue for the
\* value val at depth d and stringifyMembers for the members ms of an
\* object at depth d, when the objects of the set seen have been visited;
\* both give the text and the objects visited afterwards
RECURSIVE stringifyValue(_, _, _, _)
RECURSIVE stringifyMembers(_, _, _, _)
stringifyValue(heap, val, seen, d) ==
  IF val.t = "string" THEN [text |-> quoted(val.s), seen |-> seen]
  ELSE IF val.id \in seen
  THEN \* if (seen.has(val)) return '[Circular]'
       [text |-> quoted(CircularMarker), seen |-> seen]
  ELSE \* seen.add(val); return val
       LET r == stringifyMembers(heap, heap[val.id], seen \cup { val.id }, d + 1)
       IN  [text |-> IF heap[val.id] = << >> THEN << "{", "}" >>
                     ELSE << "{" >> \o r.text \o Indent(d) \o << "}" >>,
            seen |-> r.seen]

stringifyMembers(heap, ms, seen, d) ==
  IF ms = << >> THEN [text |-> << >>, seen |-> seen]
  ELSE LET h == stringifyValue(heap, Head(ms).val, seen, d)
           r == stringifyMembers(heap, Tail(ms), h.seen, d)
       IN  [text |-> Indent(d) \o quoted(<< Head(ms).key >>) \o << ":", " " >> \o h.text
                       \o (IF Tail(ms) = << >> THEN << >> ELSE << "," >>) \o r.text,
            seen |-> r.seen]

\* the value itself: the replacer is first called with key '' and the value
stringify(value) == stringifyValue(value.heap, [t |-> "ref", id |-> 1], {}, 0).text

\* sanitizeObservation(value) of an agent whose obsTruncateChars is lim:
\* null and undefined, primitives (s is String(value)), objects
sanitizeObservationAt(value, lim) ==
  IF value.t = "null" THEN << >>
  ELSE IF value.t \in { "string", "number", "boolean" } THEN escAndTruncAt(value.s, lim)
  ELSE escAndTruncAt(stringify(value), lim)

\* sanitizeObservation(value) of an agent whose obsTruncateChars is the
\* default
sanitizeObservation(value) == sanitizeObservationAt(value, obsTruncateChars)

\* the characters of the strings given to sanitizeObservation alone
SanitizerChars == { "a", "&", "<", ">" }

\* the strings of at most n characters of the set S
RECURSIVE Strings(_, _)
Strings(S, n) ==
  IF n = 0 THEN { << >> }
  ELSE Strings(S, n - 1) \cup
       { Append(l, c) : l \in { m \in Strings(S, n - 1) : Len(m) = n - 1 }, c \in S }

\* the members of the objects given to sanitizeObservation alone: a string
\* of n characters, a reference to the object itself, a reference to a
\* nested object
Members ==
  { [key |-> "k", val |-> [t |-> "string", s |-> [m \in 1..n |-> "x"]]] : n \in 0..MaxLen }
  \cup
  { [key |-> "k", val |-> [t |-> "ref", id |-> n]] : n \in { 1, 2 } }

\* the nested object: its one member refers back to the value
NestedObject == << [key |-> "b", val |-> [t |-> "ref", id |-> 1]] >>

\* the values given to sanitizeObservation alone
SanitizerValues ==
  { [t |-> "null", s |-> << >>] }
  \cup { [t |-> "string", s |-> x] : x \in Strings(SanitizerChars, MaxLen) }
  \cup { [t |-> "number", s |-> << "4", "2" >>], [t |-> "boolean", s |-> << "t", "r", "u", "e" >>] }
  \cup { [t |-> "object", s |-> << >>, heap |-> << ms, NestedObject >>] :
            ms \in { l \in Strings(Members, 2) : Len(l) > 0 } }

\* the values of this.obsTruncateChars of sanitizeObservation alone
Limits == 0..MaxLimit \cup { obsTruncateChars }

\* ------------------------------------------------------------------------
\* Planner decisions (the value getCompletion resolves to)
\* ------------------------------------------------------------------------

\* call.args ?? call.arguments of a raw call: missing, an object (its JSON
\* text), a string holding JSON (json: the text JSON.parse yields for it,
\* isObject: whether that value is an object), or a string that is not JSON
ArgsMissing == [t |-> "missing", json |-> << >>, isObject |-> FALSE]
ArgsObject == [t |-> "object", json |-> << "{", "expression", ":", "2+2", "}" >>, isObject |-> TRUE]
ArgsJsonString == [t |-> "string", json |-> << "{", "filename", ":", "a.txt", "}" >>, isObject |-> TRUE]
ArgsBadString == [t |-> "string", json |-> << >>, isObject |-> FALSE]

\* lines 104-114 of run(): the arguments object of a normalized call, as
\* the text JSON.stringify gives for it
normalizeArgs(args) ==
  IF args.t = "missing" THEN << "{", "}" >>
  ELSE IF args.isObject THEN args.json
  ELSE << "{", "}" >>

\* raw tool calls of a decision of a stub provider: id and name may be
\* missing ("")
RawCalls ==
  { [id |-> "", name |-> "calculator", args |-> ArgsObject],
    [id |-> "", name |-> "frobnicate", args |-> ArgsMissing],
    [id |-> "", name |-> "", args |-> ArgsBadString] }

\* the lists of at most n elements of the set S
RECURSIVE Lists(_, _)
Lists(S, n) ==
  IF n = 0 THEN { << >> }
  ELSE Lists(S, n - 1) \cup
       { Append(l, c) : l \in { m \in Lists(S, n - 1) : Len(m) = n - 1 }, c \in S }

\* stop reasons of the decisions; "" is a missing stopReason
StopReasons ==
  { "", "continue", "length", "final", "stop", "completed", "end", "done", "Done" }

\* the decisions without tool calls: a text with any stop reason, and
\* content null or '' (no content)
ContentSteps ==
  { [toolCalls |-> << >>, content |-> Str(<< "4" >>), stopReason |-> r] :
      r \in StopReasons }
  \cup
  { [toolCalls |-> << >>, content |-> Null, stopReason |-> "continue"],
    [toolCalls |-> << >>, content |-> Str(<< >>), stopReason |-> "final"] }

\* the decisions with tool calls; a decision may carry content and a
\* finality stop reason besides its calls
ToolSteps ==
  { [toolCalls |-> l, content |-> Null, stopReason |-> "continue"] :
      l \in Lists(RawCalls, MaxProposed) \ { << >> } }
  \cup
  { [toolCalls |-> << c >>, content |-> Str(<< "4" >>), stopReason |-> "final"] :
      c \in { d \in RawCalls : d.name = "frobnicate" } }

\* ------------------------------------------------------------------------
\* tryParseToolCall
\* ------------------------------------------------------------------------

\* A planner text is described by: text (the raw text), cleaned (the text
\* after the fence replace and trim of line 47), json (what JSON.parse of
\* cleaned gives; t = "invalid" when it throws), finalMatch and toolMatch
\* (the results of the two regular expressions on cleaned; toolMatch.json
\* is what JSON.parse gives for the matched text).
\* A JSON value is described by its type t, its string value s, and for an
\* object its fields final, tool_calls, tool, name, arguments.

\* a field that is absent or not a string
NoString == [isString |-> FALSE, s |-> << >>]

\* a field that holds the string s
JString(s) == [isString |-> TRUE, s |-> s]

\* a tool_calls field that is absent or not an array
NoArray == [isArray |-> FALSE, items |-> << >>]

\* a JSON object with the given fields
JObject(final, tool_calls, tool, name, arguments) ==
  [t |-> "object", s |-> << >>, final |-> final, tool_calls |-> tool_calls,
   tool |-> tool, name |-> name, arguments |-> arguments]

\* a text JSON.parse rejects
JInvalid ==
  [t |-> "invalid", s |-> << >>, final |-> NoString, tool_calls |-> NoArray,
   tool |-> "", name |-> "", arguments |-> ArgsMissing]

\* a JSON number
JNumber ==
  [t |-> "number", s |-> << >>, final |-> NoString, tool_calls |-> NoArray,
   tool |-> "", name |-> "", arguments |-> ArgsMissing]

\* the JSON value null
JNull ==
  [t |-> "null", s |-> << >>, final |-> NoString, tool_calls |-> NoArray,
   tool |-> "", name |-> "", arguments |-> ArgsMissing]

\* a JSON array
JArray ==
  [t |-> "array", s |-> << >>, final |-> NoString, tool_calls |-> NoArray,
   tool |-> "", name |-> "", arguments |-> ArgsMissing]

\* the JSON string s
JStringValue(s) ==
  [t |-> "string", s |-> s, final |-> NoString, tool_calls |-> NoArray,
   tool |-> "", name |-> "", arguments |-> ArgsMissing]

\* a regular expression that did not match
NoMatch == [matched |-> FALSE, group |-> << >>, json |-> JInvalid]

\* In a text that the model computes on, a piece is one character, the
\* piece Fence (three backticks), or one of the words json, final, null.

\* the piece that stands for three backticks
Fence == "[fence]"

\* the characters the class \s matches and trim() removes
isSpace(c) == c \in { " ", "\n" }

\* String.prototype.trim
RECURSIVE trimStart(_)
trimStart(t) == IF t # << >> /\ isSpace(Head(t)) THEN trimStart(Tail(t)) ELSE t

RECURSIVE trimEnd(_)
trimEnd(t) ==
  IF t # << >> /\ isSpace(t[Len(t)]) THEN trimEnd(SubSeq(t, 1, Len(t) - 1)) ELSE t

trim(t) == trimEnd(trimStart(t))

\* the least element of a non-empty set of numbers
Min(S) == CHOOSE n \in S : \A m \in S : n <= m

\* line 47: text.replace(/```(?:json)?\s*([\s\S]*?)\s*```/i, '$1'). The
\* expression is not anchored: its first match starts at the first fence
\* of the text and ends at the next one
stripFence(t) ==
  LET F == { n \in DOMAIN t : t[n] = Fence }
  IN  IF Cardinality(F) < 2 THEN t
      ELSE LET f1 == Min(F)
               f2 == Min(F \ { f1 })
               start == IF f1 + 1 < f2 /\ t[f1 + 1] = "json" THEN f1 + 2 ELSE f1 + 1
           IN  SubSeq(t, 1, f1 - 1) \o trim(SubSeq(t, start, f2 - 1))
                 \o SubSeq(t, f2 + 1, Len(t))

\* const cleaned = (text || '').replace(...).trim()
clean(t) == trim(stripFence(t))

\* JSON.stringify of the characters of a string
RECURSIVE jsonEscape(_)
jsonEscape(x) ==
  IF x = << >> THEN << >>
  ELSE (CASE Head(x) = "\"" -> << "\\", "\"" >>
          [] Head(x) = "\\" -> << "\\", "\\" >>
          [] Head(x) = "\n" -> << "\\", "n" >>
          [] OTHER -> << Head(x) >>) \o jsonEscape(Tail(x))

\* the characters of a JSON string literal without its quotes, as
\* JSON.parse reads them; ok is FALSE where JSON.parse throws
RECURSIVE jsonUnescape(_)
jsonUnescape(m) ==
  IF m = << >> THEN [ok |-> TRUE, s |-> << >>]
  ELSE IF Head(m) = "\\"
  THEN IF Len(m) >= 2 /\ m[2] \in { "\"", "\\", "n" }
       THEN LET r == jsonUnescape(SubSeq(m, 3, Len(m)))
            IN  [ok |-> r.ok,
                 s |-> << (IF m[2] = "n" THEN "\n" ELSE m[2]) >> \o r.s]
       ELSE [ok |-> FALSE, s |-> << >>]
  ELSE IF Head(m) \in { "\"", "\n" } THEN [ok |-> FALSE, s |-> << >>]
  ELSE LET r == jsonUnescape(Tail(m))
       IN  [ok |-> r.ok, s |-> << Head(m) >> \o r.s]

\* the text {"final":" that opens the object of a final answer, and the
\* text "} that closes it
FinalOpen == << "{", "\"", "final", "\"", ":", "\"" >>
FinalClose == << "\"", "}" >>

\* JSON.stringify({ final: x })
serializeFinal(x) == FinalOpen \o jsonEscape(x) \o FinalClose

\* the opening of an object whose only field, "d", holds another value
NestedOpen == << "{", "\"", "d", "\"", ":" >>

\* JSON.parse(cleaned) for the texts the model computes on: the object of
\* a final answer, the empty object, an object that holds one of these
\* values in its only field "d", a string literal, null, a number, an
\* array of a number; every other text of the model is one JSON.parse
\* rejects
RECURSIVE jsonParse(_)
jsonParse(c) ==
  LET n == Len(c)
  IN  IF c = << "{", "}" >>
      THEN JObject(NoString, NoArray, "", "", ArgsMissing)
      ELSE IF n > Len(NestedOpen) + 1
         /\ SubSeq(c, 1, Len(NestedOpen)) = NestedOpen
         /\ c[n] = "}"
      THEN IF jsonParse(SubSeq(c, Len(NestedOpen) + 1, n - 1)).t = "invalid"
           THEN JInvalid
           ELSE JObject(NoString, NoArray, "", "", ArgsMissing)
      ELSE IF n >= Len(FinalOpen) + Len(FinalClose)
         /\ SubSeq(c, 1, Len(FinalOpen)) = FinalOpen
         /\ SubSeq(c, n - 1, n) = FinalClose
      THEN LET r == jsonUnescape(SubSeq(c, Len(FinalOpen) + 1, n - 2))
           IN  IF r.ok THEN JObject(JString(r.s), NoArray, "", "", ArgsMissing)
               ELSE JInvalid
      ELSE IF n >= 2 /\ c[1] = "\"" /\ c[n] = "\""
      THEN LET r == jsonUnescape(SubSeq(c, 2, n - 1))
           IN  IF r.ok THEN JStringValue(r.s) ELSE JInvalid
      ELSE IF c = << "null" >> THEN JNull
      ELSE IF c = << "4" >> THEN JNumber
      ELSE IF c = << "[", "4", "]" >> THEN JArray
      ELSE JInvalid

\* line 95: cleaned.match(/{\s*"final"\s*:\s*"([\s\S]*?)"\s*}/), for
\* texts that have no white space between the tokens before the string:
\* the first place where the object opens and a quote followed by the
\* closing brace comes after it; the group ends before the first such quote
finalMatchOf(c) ==
  LET closes(q) ==
        /\ c[q] = "\""
        /\ \E b \in (q + 1)..Len(c) :
              /\ c[b] = "}"
              /\ \A w \in (q + 1)..(b - 1) : isSpace(c[w])
      ends(a) == { q \in (a + Len(FinalOpen))..Len(c) : closes(q) }
      starts == { a \in 1..Len(c) :
                    /\ a + Len(FinalOpen) - 1 <= Len(c)
                    /\ SubSeq(c, a, a + Len(FinalOpen) - 1) = FinalOpen
                    /\ ends(a) # {} }
  IN  IF starts = {} THEN NoMatch
      ELSE LET a == Min(starts)
           IN  [matched |-> TRUE,
                group |-> SubSeq(c, a + Len(FinalOpen), Min(ends(a)) - 1),
                json |-> JInvalid]

\* the description of a text that has no tool call in it
TextOf(t) ==
  [text |-> t, cleaned |-> clean(t), json |-> jsonParse(clean(t)),
   finalMatch |-> finalMatchOf(clean(t)), toolMatch |-> NoMatch]

\* the text JSON.stringify({ final: x }), with the string x it holds
FinalText(x) ==
  [text |-> serializeFinal(x), cleaned |-> clean(serializeFinal(x)),
   json |-> jsonParse(clean(serializeFinal(x))),
   finalMatch |-> finalMatchOf(clean(serializeFinal(x))), toolMatch |-> NoMatch,
   final |-> x]

\* robustParseArgs(val), lines 33-43
robustParseArgs(val) ==
  IF val.t = "missing" THEN [t |-> "object", json |-> << "{", "}" >>, isObject |-> TRUE]
  ELSE IF val.t = "object" THEN val
  ELSE IF val.isObject THEN [t |-> "object", json |-> val.json, isObject |-> TRUE]
  ELSE [t |-> "object", json |-> << "{", "}" >>, isObject |-> TRUE]

\* the id of a parsed call: c?.id || name || `parsed-${Date.now()}-${idx}`
parsedId(c, name, idx) ==
  IF c.id # "" THEN c.id
  ELSE IF name # "" THEN name
  ELSE "parsed-" \o ToString(idx)

\* lines 60-69: the map over obj.tool_calls (idx counts from 0) and the
\* filter(Boolean)
RECURSIVE parseCalls(_, _)
parseCalls(items, idx) ==
  IF items = << >> THEN << >>
  ELSE LET c == Head(items)
           name == IF c.name # "" THEN c.name
                   ELSE IF c.tool # "" THEN c.tool
                   ELSE c.fname
           rest == parseCalls(Tail(items), idx + 1)
       IN  IF name = "" THEN rest
           ELSE << [id |-> parsedId(c, name, idx), name |-> name,
                    args |-> robustParseArgs(c.arguments)] >> \o rest

\* { toolCalls: null, content, stopReason }
ContentStep(content, stopReason) ==
  [toolCalls |-> << >>, content |-> content, stopReason |-> stopReason]

\* { toolCalls: [{ id: toolName, name: toolName, args }], content: null, ... }
SingleCallStep(toolName, args) ==
  [toolCalls |-> << [id |-> toolName, name |-> toolName, args |-> args] >>,
   content |-> Null, stopReason |-> "continue"]

\* lines 94-125: the regular expressions, the plain-content fallback and
\* the last return
parseHeuristics(p) ==
  IF p.finalMatch.matched
  THEN ContentStep(Str(p.finalMatch.group), "final")
  ELSE IF p.toolMatch.matched /\ p.toolMatch.json.t = "invalid"
  THEN \* JSON.parse(jsonString) throws: caught at line 120
       ContentStep(Str(p.text), "continue")
  ELSE IF p.toolMatch.matched
          /\ (p.toolMatch.json.tool # "" \/ p.toolMatch.json.name # "")
  THEN SingleCallStep(IF p.toolMatch.json.tool # "" THEN p.toolMatch.json.tool
                      ELSE p.toolMatch.json.name,
                      robustParseArgs(p.toolMatch.json.arguments))
  ELSE IF p.cleaned # << >>
  THEN ContentStep(Str(p.cleaned), "continue")
  ELSE ContentStep(Str(p.text), "continue")

\* variant of tryParseToolCall: the calls of a tool_calls array are
\* returned even when none is left after the filter
tryParseToolCallMutant(p) ==
  LET obj == p.json
      calls == parseCalls(obj.tool_calls.items, 0)
  IN  IF obj.t = "invalid" \/ obj.t = "null"
      THEN parseHeuristics(p)
      ELSE IF obj.final.isString
      THEN ContentStep(Str(obj.final.s), "final")
      ELSE IF obj.tool_calls.isArray
      THEN [toolCalls |-> calls, content |-> Null, stopReason |-> "continue"]
      ELSE IF obj.tool # "" \/ obj.name # ""
      THEN SingleCallStep(IF obj.tool # "" THEN obj.tool ELSE obj.name,
                          robustParseArgs(obj.arguments))
      ELSE IF obj.t = "string" /\ trim(obj.s) # << >>
      THEN ContentStep(Str(trim(obj.s)), "continue")
      ELSE parseHeuristics(p)

\* variant of tryParseToolCall: the top-level tool / name field is looked
\* at before the tool_calls array
tryParseToolCallOrderMutant(p) ==
  LET obj == p.json
      calls == parseCalls(obj.tool_calls.items, 0)
  IN  IF obj.t = "invalid" \/ obj.t = "null"
      THEN parseHeuristics(p)
      ELSE IF obj.final.isString
      THEN ContentStep(Str(obj.final.s), "final")
      ELSE IF obj.tool # "" \/ obj.name # ""
      THEN SingleCallStep(IF obj.tool # "" THEN obj.tool ELSE obj.name,
                          robustParseArgs(obj.arguments))
      ELSE IF obj.tool_calls.isArray /\ calls # << >>
      THEN [toolCalls |-> calls, content |-> Null, stopReason |-> "continue"]
      ELSE IF obj.t = "string" /\ trim(obj.s) # << >>
      THEN ContentStep(Str(trim(obj.s)), "continue")
      ELSE parseHeuristics(p)

\* tryParseToolCall(text), lines 45-125
tryParseToolCall(p) ==
  LET obj == p.json
      calls == parseCalls(obj.tool_calls.items, 0)
  IN  IF obj.t = "invalid" \/ obj.t = "null"
      THEN \* JSON.parse throws, or reading obj.final of null throws
           parseHeuristics(p)
      ELSE IF obj.final.isString
      THEN ContentStep(Str(obj.final.s), "final")
      ELSE IF obj.tool_calls.isArray /\ calls # << >>
      THEN [toolCalls |-> calls, content |-> Null, stopReason |-> "continue"]
      ELSE IF obj.tool # "" \/ obj.name # ""
      THEN SingleCallStep(IF obj.tool # "" THEN obj.tool ELSE obj.name,
                          robustParseArgs(obj.arguments))
      ELSE IF obj.t = "string" /\ trim(obj.s) # << >>
      THEN ContentStep(Str(trim(obj.s)), "continue")
      ELSE parseHeuristics(p)

\* the entries of a tool_calls array of a planner text: with a name, and
\* with a name and an explicit id
CallEntries ==
  { [id |-> "", name |-> "calculator", tool |-> "", fname |-> "", arguments |-> ArgsObject],
    [id |-> "call_1", name |-> "calculator", tool |-> "", fname |-> "", arguments |-> ArgsJsonString] }

\* the planner text {"tool_calls":[...]} with the given entries
ToolCallsText(items) ==
  [text |-> << "{\"tool_calls\":[", ToString(items), "]}" >>,
   cleaned |-> << "{\"tool_calls\":[", ToString(items), "]}" >>,
   json |-> JObject(NoString, [isArray |-> TRUE, items |-> items], "", "", ArgsMissing),
   finalMatch |-> NoMatch, toolMatch |-> NoMatch]

\* the planner texts of the model
PlannerTexts ==
  { ToolCallsText(l) : l \in Lists(CallEntries, MaxProposed) }
  \cup
  { \* {"final":"4"}
    [text |-> << "{\"final\":\"4\"}" >>, cleaned |-> << "{\"final\":\"4\"}" >>,
     json |-> JObject(JString(<< "4" >>), NoArray, "", "", ArgsMissing),
     finalMatch |-> [matched |-> TRUE, group |-> << "4" >>, json |-> JInvalid],
     toolMatch |-> NoMatch],
    \* {"tool":"calculator","arguments":{"expression":"2+2"}}
    [text |-> << "{\"tool\":\"calculator\",\"arguments\":{\"expression\":\"2+2\"}}" >>,
     cleaned |-> << "{\"tool\":\"calculator\",\"arguments\":{\"expression\":\"2+2\"}}" >>,
     json |-> JObject(NoString, NoArray, "calculator", "", ArgsObject),
     finalMatch |-> NoMatch,
     toolMatch |-> [matched |-> TRUE, group |-> << >>,
                    json |-> JObject(NoString, NoArray, "calculator", "", ArgsObject)]],
    \* the empty text
    [text |-> << >>, cleaned |-> << >>, json |-> JInvalid,
     finalMatch |-> NoMatch, toolMatch |-> NoMatch] }

\* an entry of a tool_calls array that has no name
NamelessEntry ==
  [id |-> "", name |-> "", tool |-> "", fname |-> "", arguments |-> ArgsObject]

\* texts that hold a tool call, or what looks like one
ToolShapedTexts ==
  { \* {"tool_calls":[{"arguments":{...}}]}: no entry has a name
    ToolCallsText(<< NamelessEntry >>),
    \* Sure: {"tool":"calculator","arguments":{"a":{"b":1}}}: the expression
    \* of line 101 matches up to the second closing brace, which is not JSON
    [text |-> << "Sure: {\"tool\":\"calculator\",\"arguments\":{\"a\":{\"b\":1}}}" >>,
     cleaned |-> << "Sure: {\"tool\":\"calculator\",\"arguments\":{\"a\":{\"b\":1}}}" >>,
     json |-> JInvalid, finalMatch |-> NoMatch,
     toolMatch |-> [matched |-> TRUE, group |-> << >>, json |-> JInvalid]],
    \* {'tool':'calculator','arguments':{}}: the expression of line 101
    \* accepts the single quotes, JSON.parse does not
    [text |-> << "{'tool':'calculator','arguments':{}}" >>,
     cleaned |-> << "{'tool':'calculator','arguments':{}}" >>,
     json |-> JInvalid, finalMatch |-> NoMatch,
     toolMatch |-> [matched |-> TRUE, group |-> << >>, json |-> JInvalid]],
    \* I will call {"tool":"calculator","arguments":{"expression":"2+2"}} now
    [text |-> << "I will call {\"tool\":\"calculator\",\"arguments\":{\"expression\":\"2+2\"}} now" >>,
     cleaned |-> << "I will call {\"tool\":\"calculator\",\"arguments\":{\"expression\":\"2+2\"}} now" >>,
     json |-> JInvalid, finalMatch |-> NoMatch,
     toolMatch |-> [matched |-> TRUE, group |-> << >>,
                    json |-> JObject(NoString, NoArray, "calculator", "", ArgsObject)]] }

\* texts without a tool call: empty, white space, no JSON, the JSON values
\* null, 4, [4], "hi" and " ", the empty object, an object of a final
\* answer in a fence, in two nested fences, and after some words, the
\* objects {"d":{"final":"x"}} and {"d":4}
PlainTexts ==
  { << >>,
    << " ", " " >>,
    << "%", "$", "#" >>,
    << "null" >>,
    << "4" >>,
    << "[", "4", "]" >>,
    << "\"", "h", "i", "\"" >>,
    << "\"", " ", "\"" >>,
    << "{", "}" >>,
    << Fence, "json", "\n" >> \o serializeFinal(<< "4" >>) \o << "\n", Fence >>,
    << Fence, "\n", Fence, "json", "\n" >> \o serializeFinal(<< "4" >>)
      \o << "\n", Fence, "\n", Fence >>,
    << "o", "k", " " >> \o serializeFinal(<< "4" >>),
    NestedOpen \o serializeFinal(<< "x" >>) \o << "}" >>,
    NestedOpen \o << "4", "}" >> }

\* the characters of the strings x of the texts JSON.stringify({ final: x })
FinalChars == { "a", " ", "\"", "\\", "\n", "{", "}", Fence }

\* the fields of a JSON object written one after the other, with commas
RECURSIVE joinFields(_)
joinFields(fs) ==
  IF fs = << >> THEN << >>
  ELSE IF Len(fs) = 1 THEN fs
  ELSE << Head(fs), "," >> \o joinFields(Tail(fs))

\* what the expression of line 101 matches in a text: the call of a tool
\* by the key "tool", or by the key "name"
ToolMatch(tool, name) ==
  [matched |-> TRUE, group |-> << >>,
   json |-> JObject(NoString, NoArray, tool, name, ArgsObject)]

\* the text of a JSON object whose fields are written in the order
\* tool_calls, tool, name, arguments, note, extra, final:
\*   tool_calls  the array tc, each entry written {"name":..,"arguments":{..}}
\*   tool, name  the strings t and nm, when not empty; "arguments" follows
\*               when one of them is there
\*   note        {"final":"x"}, when fm
\*   extra       {"tool":"frobnicate","arguments":{..}}, when tm
\*   final       the string of f, when f is a string
\* The expression of line 95 matches the first brace that the key "final"
\* follows: the one of note, or the one of the object when final is its
\* only field. The expression of line 101 matches the first brace that
\* the key tool or name follows with "arguments" and the closing brace
\* after it: a named entry of tool_calls, the object itself when it has
\* one name and the arguments only, or the one of extra.
OrderText(f, tc, t, nm, fm, tm) ==
  LET named == \E n \in DOMAIN tc.items : tc.items[n].name # ""
      args == IF t # "" \/ nm # "" THEN ArgsObject ELSE ArgsMissing
      fields ==
        SelectSeq(<< IF tc.isArray THEN "\"tool_calls\":" \o ToString(tc.items) ELSE "",
                     IF t # "" THEN "\"tool\":\"" \o t \o "\"" ELSE "",
                     IF nm # "" THEN "\"name\":\"" \o nm \o "\"" ELSE "",
                     IF args.t # "missing" THEN "\"arguments\":{\"expression\":\"2+2\"}" ELSE "",
                     IF fm THEN "\"note\":{\"final\":\"x\"}" ELSE "",
                     IF tm THEN "\"extra\":{\"tool\":\"frobnicate\",\"arguments\":{\"expression\":\"2+2\"}}" ELSE "",
                     IF f.isString THEN "\"final\":\"4\"" ELSE "" >>,
                  LAMBDA x : x # "")
      text == << "{" >> \o joinFields(fields) \o << "}" >>
      rest == tc.isArray \/ fm \/ tm
  IN  [text |-> text, cleaned |-> text,
       json |-> JObject(f, tc, t, nm, args),
       finalMatch |->
         IF fm THEN [matched |-> TRUE, group |-> << "x" >>, json |-> JInvalid]
         ELSE IF f.isString /\ ~ rest /\ t = "" /\ nm = ""
         THEN [matched |-> TRUE, group |-> f.s, json |-> JInvalid]
         ELSE NoMatch,
       toolMatch |->
         IF named THEN ToolMatch("", "calculator")
         ELSE IF ~ rest /\ ~ f.isString /\ t # "" /\ nm = "" THEN ToolMatch(t, "")
         ELSE IF ~ rest /\ ~ f.isString /\ t = "" /\ nm # "" THEN ToolMatch("", nm)
         ELSE IF tm THEN ToolMatch("frobnicate", "")
         ELSE NoMatch]

\* the tool_calls fields of the objects of OrderTexts: none, an array with
\* a named entry, an array whose entry has no name
OrderArrays ==
  { NoArray,
    [isArray |-> TRUE,
     items |-> << [id |-> "", name |-> "calculator", tool |-> "", fname |-> "",
                   arguments |-> ArgsObject] >>],
    [isArray |-> TRUE, items |-> << NamelessEntry >>] }

\* JSON objects with every combination of the fields the strict cases
\* read, and of the nested objects the two expressions match
OrderTexts ==
  { OrderText(f, tc, t, nm, fm, tm) :
      f \in { NoString, JString(<< "4" >>) }, tc \in OrderArrays,
      t \in { "", "calculator" }, nm \in { "", "create_file" },
      fm \in BOOLEAN, tm \in BOOLEAN }

\* the texts given to tryParseToolCall alone
ParserInputs ==
  { TextOf(t) : t \in PlainTexts }
  \cup ToolShapedTexts
  \cup PlannerTexts
  \cup OrderTexts
  \cup { FinalText(x) : x \in Strings(FinalChars, MaxLen) }

\* what a tool implementation resolves to
ToolValues == { Str(<< "Result: ", "4" >>) }

\* what a tool implementation throws or rejects with: an Error, a value
\* that is not an Error (its .message is undefined), null / undefined
ToolErrors ==
  { [t |-> "Error", message |-> << "boom" >>],
    [t |-> "nonError", message |-> << "undefined" >>],
    [t |-> "nullish", message |-> << >>] }

\* the Error runWithTimeout rejects with when the timer fires
TimeoutError ==
  [t |-> "Error", message |-> << "tool timeout after ", ToString(toolTimeoutMs), "ms" >>]

\* ------------------------------------------------------------------------
\* State
\* ------------------------------------------------------------------------

VARIABLES
  pc,           \* where run() is: "idle", "planning" (awaiting getCompletion),
                \* "acting" (in the dispatch loop, before call k),
                \* "awaitTool" (awaiting runWithTimeout), "done" (returned),
                \* "thrown" (rejected)
  i,            \* the loop counter of run()
  history,      \* this.history
  messages,     \* the calls of onMessage, in order (the chat log of main.js)
  thought,      \* the last text given to onThought (updateThought of main.js)
  thoughtCount, \* the number of calls of onThought
  completions,  \* the number of calls of llmProvider.getCompletion
  step,         \* the decision consumed last
  plannerText,  \* the planner text that decision was parsed from, if any
  finals,       \* the number of consumed decisions that were a final answer
  consumed,     \* the number of decisions consumed
  calls,        \* normalizedCalls of the current iteration
  k,            \* index in calls of the call being dispatched
  timer,        \* whether the timer of runWithTimeout is pending
  inProgress,   \* the invocations of tool implementations not yet settled
  cur,          \* the invocation run() is awaiting
  invocations,  \* the number of calls of a tool implementation
  uuidCount,    \* the number of identifiers generated
  proposed,     \* the number of raw tool calls the planner proposed
  runs,         \* the number of calls of run() on the agent
  value,        \* sanitizeObservation alone: its argument
  limit,        \* this.obsTruncateChars
  obs,          \* sanitizeObservation alone: what the call returned
  input,        \* tryParseToolCall alone: its argument
  parsed,       \* tryParseToolCall alone: what the call returned
  providerPc,   \* getCompletion alone: "idle", "request" (awaiting
                \* requestOnce), "delay" (awaiting the backoff timer),
                \* "resolved", "rejected"
  attempt,      \* getCompletion alone: the loop counter
  requests,     \* getCompletion alone: the number of calls of requestOnce
  delays,       \* getCompletion alone: the delays of the timers set, in order
  lastErr,      \* getCompletion alone: lastErr
  completion,   \* getCompletion alone: the decision it resolved to
  supplied,     \* the constructor alone: the tools argument
  built         \* the constructor alone: the keys of this.registry

\* the variables of a separate call of sanitizeObservation, of
\* tryParseToolCall, of getCompletion and of the constructor
pureVars ==
  << value, limit, obs, input, parsed, providerPc, attempt, requests, delays,
     lastErr, completion, supplied, built >>

vars ==
  << pc, i, history, messages, thought, thoughtCount, completions, step,
     plannerText, finals, consumed, calls, k, timer, inProgress, cur, invocations, uuidCount,
     proposed, runs, pureVars >>

\* { role: 'user', content }
UserTurn(content) ==
  [role |-> "user", content |-> content, hasToolCalls |-> FALSE,
   tool_calls |-> << >>, tool_call_id |-> ""]

\* { role: 'assistant', content }
AssistantTurn(content) ==
  [role |-> "assistant", content |-> content, hasToolCalls |-> FALSE,
   tool_calls |-> << >>, tool_call_id |-> ""]

\* { role: 'assistant', content: '', tool_calls: normalizedCalls.map(...) }
AssistantCallsTurn(normalizedCalls) ==
  [role |-> "assistant", content |-> << >>, hasToolCalls |-> TRUE,
   tool_calls |-> [n \in 1..Len(normalizedCalls) |->
                     [id |-> normalizedCalls[n].id,
                      name |-> normalizedCalls[n].name,
                      arguments |-> normalizedCalls[n].args]],
   tool_call_id |-> ""]

\* variant of ToolTurn: the tool turn refers to the name of the call
ToolTurnMutant(c, text) ==
  [role |-> "tool", content |-> << "OBSERVATION[", c.name, "]: " >> \o text,
   hasToolCalls |-> FALSE, tool_calls |-> << >>, tool_call_id |-> c.name]

\* { role: 'tool', tool_call_id: c.id, content: `OBSERVATION[${c.name}]: ${text}` }
ToolTurn(c, text) ==
  [role |-> "tool", content |-> << "OBSERVATION[", c.name, "]: " >> \o text,
   hasToolCalls |-> FALSE, tool_calls |-> << >>, tool_call_id |-> c.id]

\* `Unknown tool '${c.name}'. Please choose a listed tool.`
UnknownMsg(c) == << "Unknown tool '", c.name, "'. Please choose a listed tool." >>

\* `Tool '${c.name}' failed: ${e.message}`
FailedMsg(c, e) == << "Tool '", c.name, "' failed: " >> \o e.message

\* normalizedCalls: the map of lines 102-122 (an id is generated for every
\* raw call without one, n identifiers having been generated before)
\* followed by the filter of line 123
RECURSIVE normalizeCalls(_, _)
normalizeCalls(toolCalls, n) ==
  IF toolCalls = << >> THEN << >>
  ELSE LET call == Head(toolCalls)
           fresh == call.id = ""
           c == [id |-> IF fresh THEN randomUUID(n + 1) ELSE call.id,
                 name |-> call.name,
                 args |-> normalizeArgs(call.args)]
           rest == normalizeCalls(Tail(toolCalls), IF fresh THEN n + 1 ELSE n)
       IN  IF c.name # "" THEN << c >> \o rest ELSE rest

\* the number of identifiers the map of lines 102-122 generates
generated(toolCalls) == Cardinality({ n \in DOMAIN toolCalls : toolCalls[n].id = "" })

\* no planner text: the decision came from a stub provider
NoText ==
  [text |-> << "stub" >>, cleaned |-> << >>, json |-> JInvalid,
   finalMatch |-> NoMatch, toolMatch |-> NoMatch]

\* the decision is a final answer: no tool calls, non-empty string content
\* and a stop reason of the finality list
FinalAnswer(s) ==
  /\ s.toolCalls = << >>
  /\ s.content.t = "string"
  /\ s.content.s # << >>
  /\ s.stopReason \in { "final", "stop", "completed", "end", "done", "Done" }

\* the agent after its construction
AgentInit ==
  /\ pc = "idle"
  /\ i = 0
  /\ history = << >>
  /\ messages = << >>
  /\ thought = << >>
  /\ thoughtCount = 0
  /\ completions = 0
  /\ step = [toolCalls |-> << >>, content |-> Null, stopReason |-> ""]
  /\ plannerText = NoText
  /\ finals = 0
  /\ consumed = 0
  /\ calls = << >>
  /\ k = 0
  /\ timer = FALSE
  /\ inProgress = {}
  /\ cur = 0
  /\ invocations = 0
  /\ uuidCount = 0
  /\ proposed = 0
  /\ runs = 0

\* no call of sanitizeObservation alone was made
NotCalled == [returned |-> FALSE, text |-> << >>]

\* no call of tryParseToolCall alone was made
NotParsed == [returned |-> FALSE, step |-> [toolCalls |-> << >>, content |-> Null, stopReason |-> ""]]

\* no error was caught by getCompletion: lastErr is undefined
NoError == [t |-> "undefined", message |-> << >>]

\* getCompletion has not resolved
NoCompletion == [toolCalls |-> << >>, content |-> Null, stopReason |-> ""]

\* no separate call of sanitizeObservation is made
SanitizerIdle ==
  /\ value = Null
  /\ limit = obsTruncateChars
  /\ obs = NotCalled

\* no separate call of tryParseToolCall is made
ParserIdle ==
  /\ input = NoText
  /\ parsed = NotParsed

\* no separate call of getCompletion is made
ProviderIdle ==
  /\ providerPc = "idle"
  /\ attempt = 0
  /\ requests = 0
  /\ delays = << >>
  /\ lastErr = NoError
  /\ completion = NoCompletion

\* the constructor has not run
NotBuilt == [constructed |-> FALSE, keys |-> {}]

\* no separate call of the constructor is made: the agent was built from
\* tools
ConstructorIdle ==
  /\ supplied = tools
  /\ built = [constructed |-> TRUE, keys |-> registry]

\* no separate call of the four functions is made
PureIdle == SanitizerIdle /\ ParserIdle /\ ProviderIdle /\ ConstructorIdle

Init == AgentInit /\ PureIdle

\* the loop test of line 89 with counter n, after msgs were given to
\* onMessage: either the next getCompletion is called (line 91) or the loop
\* is left and line 190 runs
LoopTest(n, msgs) ==
  /\ i' = n
  /\ IF n < maxTurns
     THEN /\ pc' = "planning"
          /\ completions' = completions + 1
          /\ messages' = msgs
     ELSE /\ pc' = "done"
          /\ completions' = completions
          /\ messages' = Append(msgs, [sender |-> "agent", text |-> StuckMessage])

\* run(userInput), lines 86-91
Run(userInput) ==
  /\ pc = "idle"
  /\ history' = << UserTurn(userInput) >>
  /\ LoopTest(0, << [sender |-> "user", text |-> userInput] >>)
  /\ runs' = runs + 1
  /\ UNCHANGED << thought, thoughtCount, step, plannerText, finals, consumed, calls, k, timer,
                  inProgress, cur, invocations, uuidCount, proposed, pureVars >>

\* the decisions the provider resolves to
Steps == ContentSteps \cup ToolSteps

\* variant of Advance: the dispatch loop is left after the first call
AdvanceMutant ==
  /\ k' = 0
  /\ calls' = << >>
  /\ LoopTest(i + 1, messages)

\* end of one iteration of the dispatch loop (line 136): the next call, or
\* after the last call the `continue` of line 167
Advance ==
  IF k < Len(calls)
  THEN /\ k' = k + 1
       /\ pc' = "acting"
       /\ UNCHANGED << i, completions, messages, calls >>
  ELSE /\ k' = 0
       /\ calls' = << >>
       /\ LoopTest(i + 1, messages)

\* variant of Consume: the replanning note of branch C is also given to
\* onMessage
ConsumeMutant(s) ==
  /\ pc = "planning"
  /\ proposed + Len(s.toolCalls) <= MaxProposed
  /\ LET toolCalls == s.toolCalls
         stopReason == IF s.stopReason = "" THEN "continue" ELSE s.stopReason
         content == s.content
     IN  /\ step' = s
         /\ finals' = finals + (IF FinalAnswer(s) THEN 1 ELSE 0)
         /\ consumed' = consumed + 1
         /\ proposed' = proposed + Len(toolCalls)
         /\ thoughtCount' = thoughtCount + 1
         /\ IF Len(toolCalls) > 0
            THEN \* A) tool calls
                 LET normalizedCalls == normalizeCalls(toolCalls, uuidCount)
                 IN  /\ thought' = << "[plan] Model proposed ", ToString(Len(toolCalls)),
                                     " tool call(s)." >>
                     /\ uuidCount' = uuidCount + generated(toolCalls)
                     /\ history' = Append(history, AssistantCallsTurn(normalizedCalls))
                     /\ IF normalizedCalls = << >>
                        THEN /\ calls' = << >>
                             /\ k' = 0
                             /\ LoopTest(i + 1, messages)
                        ELSE /\ calls' = normalizedCalls
                             /\ k' = 1
                             /\ pc' = "acting"
                             /\ UNCHANGED << i, completions, messages >>
            ELSE IF content.t = "string" /\ Len(content.s) > 0
            THEN \* B) natural language content
                 LET msgs == Append(messages, [sender |-> "agent", text |-> content.s])
                 IN  /\ thought' = << "[reflect] Model produced content. stopReason=",
                                     stopReason >>
                     /\ history' = Append(history, AssistantTurn(content.s))
                     /\ UNCHANGED << uuidCount, calls, k >>
                     /\ IF isFinal(stopReason)
                        THEN /\ pc' = "done"
                             /\ messages' = msgs
                             /\ UNCHANGED << i, completions >>
                        ELSE LoopTest(i + 1, msgs)
            ELSE \* C) no tool and no content
                 /\ thought' = << "[plan] Model produced no content and no tool. Replanning." >>
                 /\ history' = Append(history, AssistantTurn(ReplanNote))
                 /\ UNCHANGED << uuidCount, calls, k >>
                 /\ LoopTest(i + 1, Append(messages, [sender |-> "agent", text |-> ReplanNote]))
  /\ UNCHANGED << timer, inProgress, cur, invocations, runs, pureVars >>

\* run() consumes the decision s that getCompletion resolved to:
\* lines 92-133 and 166-188
Consume(s) ==
  /\ pc = "planning"
  /\ proposed + Len(s.toolCalls) <= MaxProposed
  /\ LET toolCalls == s.toolCalls
         stopReason == IF s.stopReason = "" THEN "continue" ELSE s.stopReason
         content == s.content
     IN  /\ step' = s
         /\ finals' = finals + (IF FinalAnswer(s) THEN 1 ELSE 0)
         /\ consumed' = consumed + 1
         /\ proposed' = proposed + Len(toolCalls)
         /\ thoughtCount' = thoughtCount + 1
         /\ IF Len(toolCalls) > 0
            THEN \* A) tool calls
                 LET normalizedCalls == normalizeCalls(toolCalls, uuidCount)
                 IN  /\ thought' = << "[plan] Model proposed ", ToString(Len(toolCalls)),
                                     " tool call(s)." >>
                     /\ uuidCount' = uuidCount + generated(toolCalls)
                     /\ history' = Append(history, AssistantCallsTurn(normalizedCalls))
                     /\ IF normalizedCalls = << >>
                        THEN /\ calls' = << >>
                             /\ k' = 0
                             /\ LoopTest(i + 1, messages)
                        ELSE /\ calls' = normalizedCalls
                             /\ k' = 1
                             /\ pc' = "acting"
                             /\ UNCHANGED << i, completions, messages >>
            ELSE IF content.t = "string" /\ Len(content.s) > 0
            THEN \* B) natural language content
                 LET msgs == Append(messages, [sender |-> "agent", text |-> content.s])
                 IN  /\ thought' = << "[reflect] Model produced content. stopReason=",
                                     stopReason >>
                     /\ history' = Append(history, AssistantTurn(content.s))
                     /\ UNCHANGED << uuidCount, calls, k >>
                     /\ IF isFinal(stopReason)
                        THEN /\ pc' = "done"
                             /\ messages' = msgs
                             /\ UNCHANGED << i, completions >>
                        ELSE LoopTest(i + 1, msgs)
            ELSE \* C) no tool and no content
                 /\ thought' = << "[plan] Model produced no content and no tool. Replanning." >>
                 /\ history' = Append(history, AssistantTurn(ReplanNote))
                 /\ UNCHANGED << uuidCount, calls, k >>
                 /\ LoopTest(i + 1, messages)
  /\ UNCHANGED << timer, inProgress, cur, invocations, runs, pureVars >>

\* the getCompletion of a stub provider resolves to the decision s
StubResolve(s) ==
  /\ plannerText' = NoText
  /\ Consume(s)

\* the getCompletion of GeminiProvider / OpenAiProvider resolves to
\* tryParseToolCall(text) (llm_providers.js lines 229-230, 307-308)
ProviderResolve(p) ==
  /\ plannerText' = p
  /\ Consume(tryParseToolCall(p))

\* variant of DispatchUnknown: the unknown name is not told to onThought
DispatchUnknownMutant ==
  /\ pc = "acting"
  /\ ~ registryHas(calls[k].name)
  /\ history' = Append(history, ToolTurn(calls[k], UnknownMsg(calls[k])))
  /\ Advance
  /\ UNCHANGED << thought, thoughtCount, step, plannerText, finals, consumed, timer, inProgress,
                  cur, invocations, uuidCount, proposed, runs, pureVars >>

\* lines 137-147: the call is not in the registry
DispatchUnknown ==
  /\ pc = "acting"
  /\ ~ registryHas(calls[k].name)
  /\ thought' = << "[act] " >> \o UnknownMsg(calls[k])
  /\ thoughtCount' = thoughtCount + 1
  /\ history' = Append(history, ToolTurn(calls[k], UnknownMsg(calls[k])))
  /\ Advance
  /\ UNCHANGED << step, plannerText, finals, consumed, timer, inProgress, cur, invocations, uuidCount,
                  proposed, runs, pureVars >>

\* variant of Observe: the observation is also given to onMessage
ObserveMutant(result) ==
  LET c == calls[k]
      obsText == sanitizeObservationAt(result, limit)
      msgs == Append(messages, [sender |-> "agent", text |-> obsText])
  IN  /\ thought' = << "[observe] ", c.name, " => " >>
                       \o SubSeq(obsText, 1, IF Len(obsText) > 120 THEN 120 ELSE Len(obsText))
                       \o (IF Len(obsText) > 120 THEN << Ellipsis >> ELSE << >>)
      /\ history' = Append(history, ToolTurn(c, obsText))
      /\ IF k < Len(calls)
         THEN /\ k' = k + 1
              /\ pc' = "acting"
              /\ messages' = msgs
              /\ UNCHANGED << i, completions, calls >>
         ELSE /\ k' = 0
              /\ calls' = << >>
              /\ LoopTest(i + 1, msgs)

\* lines 156-163: the observation of call k is recorded
Observe(result) ==
  LET c == calls[k]
      obsText == sanitizeObservationAt(result, limit)
  IN  /\ thought' = << "[observe] ", c.name, " => " >>
                       \o SubSeq(obsText, 1, IF Len(obsText) > 120 THEN 120 ELSE Len(obsText))
                       \o (IF Len(obsText) > 120 THEN << Ellipsis >> ELSE << >>)
      /\ history' = Append(history, ToolTurn(c, obsText))
      /\ Advance

\* `[act] Executing ${c.name} ${JSON.stringify(c.args)}`
ExecutingMsg(c) == << "[act] Executing ", c.name, " " >> \o c.args

\* lines 153-155, then 156-163: e was thrown inside the try block; reading
\* e.message of null or undefined throws a TypeError out of run()
Catch(e) ==
  IF e.t = "nullish"
  THEN /\ pc' = "thrown"
       /\ thought' = ExecutingMsg(calls[k])
       /\ UNCHANGED << i, history, messages, completions, calls, k >>
  ELSE Observe(Str(FailedMsg(calls[k], e)))

\* lines 149-152: fn.implementation(c.args) is called; it throws
\* synchronously, or returns a promise that runWithTimeout races against a
\* timer (lines 24-32), and run() awaits
InvokeTool ==
  /\ pc = "acting"
  /\ registryHas(calls[k].name)
  /\ invocations' = invocations + 1
  /\ \/ /\ pc' = "awaitTool"
        /\ timer' = TRUE
        /\ cur' = invocations + 1
        /\ inProgress' = inProgress \cup { invocations + 1 }
        /\ thought' = ExecutingMsg(calls[k])
        /\ thoughtCount' = thoughtCount + 1
        /\ UNCHANGED << i, history, messages, completions, calls, k >>
     \/ \E e \in ToolErrors :
           /\ Catch(e)
           /\ thoughtCount' = thoughtCount + (IF e.t = "nullish" THEN 1 ELSE 2)
           /\ UNCHANGED << timer, cur, inProgress >>
  /\ UNCHANGED << step, plannerText, finals, consumed, uuidCount, proposed, runs, pureVars >>

\* variant of ToolResolve: the timer is left pending when the
\* implementation resolves first
ToolResolveMutant(v) ==
  /\ pc = "awaitTool"
  /\ cur \in inProgress
  /\ inProgress' = inProgress \ { cur }
  /\ Observe(v)
  /\ thoughtCount' = thoughtCount + 1
  /\ UNCHANGED << timer, step, plannerText, finals, consumed, cur, invocations, uuidCount,
                  proposed, runs, pureVars >>

\* the promise of the awaited implementation resolves to v before the timer
\* fires; the finally of runWithTimeout clears the timer
ToolResolve(v) ==
  /\ pc = "awaitTool"
  /\ cur \in inProgress
  /\ timer' = FALSE
  /\ inProgress' = inProgress \ { cur }
  /\ Observe(v)
  /\ thoughtCount' = thoughtCount + 1
  /\ UNCHANGED << step, plannerText, finals, consumed, cur, invocations, uuidCount, proposed,
                  runs, pureVars >>

\* the promise of the awaited implementation rejects with e before the
\* timer fires
ToolReject(e) ==
  /\ pc = "awaitTool"
  /\ cur \in inProgress
  /\ timer' = FALSE
  /\ inProgress' = inProgress \ { cur }
  /\ Catch(e)
  /\ thoughtCount' = thoughtCount + (IF e.t = "nullish" THEN 0 ELSE 1)
  /\ UNCHANGED << step, plannerText, finals, consumed, cur, invocations, uuidCount, proposed,
                  runs, pureVars >>

\* variant of TimerFire: the timeout error is not caught by run()
TimerFireMutant ==
  /\ pc = "awaitTool"
  /\ timer
  /\ timer' = FALSE
  /\ pc' = "thrown"
  /\ UNCHANGED << i, history, messages, thought, thoughtCount, completions,
                  step, plannerText, finals, consumed, calls, k, inProgress, cur,
                  invocations, uuidCount, proposed, runs, pureVars >>

\* the timer of runWithTimeout fires first (line 30); the implementation
\* is not cancelled and stays in progress
TimerFire ==
  /\ pc = "awaitTool"
  /\ timer
  /\ timer' = FALSE
  /\ Catch(TimeoutError)
  /\ thoughtCount' = thoughtCount + 1
  /\ UNCHANGED << step, plannerText, finals, consumed, inProgress, cur, invocations, uuidCount,
                  proposed, runs, pureVars >>

\* variant of LateSettle: the late settlement is told to onThought
LateSettleMutant(n) ==
  /\ n \in inProgress
  /\ ~ (pc = "awaitTool" /\ n = cur)
  /\ inProgress' = inProgress \ { n }
  /\ thought' = << "[observe] late" >>
  /\ thoughtCount' = thoughtCount + 1
  /\ UNCHANGED << pc, i, history, messages, completions,
                  step, plannerText, finals, consumed, calls, k, timer, cur,
                  invocations, uuidCount,
                  proposed, runs, pureVars >>

\* an implementation whose call timed out settles later; nothing awaits
\* its promise any more
LateSettle(n) ==
  /\ n \in inProgress
  /\ ~ (pc = "awaitTool" /\ n = cur)
  /\ inProgress' = inProgress \ { n }
  /\ UNCHANGED << pc, i, history, messages, thought, thoughtCount, completions,
                  step, plannerText, finals, consumed, calls, k, timer, cur,
                  invocations, uuidCount,
                  proposed, runs, pureVars >>

\* the user inputs of the model
UserInputs == { << "2+2" >> }

Next ==
  \/ \E u \in UserInputs : Run(u)
  \/ \E s \in Steps : StubResolve(s)
  \/ \E p \in PlannerTexts : ProviderResolve(p)
  \/ DispatchUnknown
  \/ InvokeTool
  \/ \E v \in ToolValues : ToolResolve(v)
  \/ \E e \in ToolErrors : ToolReject(e)
  \/ TimerFire
  \/ \E n \in inProgress : LateSettle(n)

Spec == Init /\ [][Next]_vars

\* ------------------------------------------------------------------------
\* run() called again on the same agent
\* ------------------------------------------------------------------------

\* the user inputs of the later runs
RerunInputs == { << "3+3" >> }

\* the decisions of the provider in the runs of an agent that is run again:
\* a final answer, no content, a call of a registered tool, a call of an
\* unknown tool
RerunSteps ==
  { [toolCalls |-> << >>, content |-> Str(<< "4" >>), stopReason |-> "final"],
    [toolCalls |-> << >>, content |-> Null, stopReason |-> "continue"] }
  \cup
  { [toolCalls |-> << c >>, content |-> Null, stopReason |-> "continue"] :
      c \in { d \in RawCalls : d.name # "" } }

\* variant of Rerun: the user turn is appended to the history of the
\* previous run
RerunMutant(userInput) ==
  /\ pc \in { "done", "thrown" }
  /\ runs < MaxRuns
  /\ runs' = runs + 1
  /\ history' = Append(history, UserTurn(userInput))
  /\ calls' = << >>
  /\ k' = 0
  /\ LoopTest(0, Append(messages, [sender |-> "user", text |-> userInput]))
  /\ UNCHANGED << thought, thoughtCount, step, plannerText, finals, consumed, timer,
                  inProgress, cur, invocations, uuidCount, proposed, pureVars >>

\* run(userInput), lines 86-91, on an agent whose previous run has returned
\* or rejected; implementations that timed out in that run may still be in
\* progress
Rerun(userInput) ==
  /\ pc \in { "done", "thrown" }
  /\ runs < MaxRuns
  /\ runs' = runs + 1
  /\ history' = << UserTurn(userInput) >>
  /\ calls' = << >>
  /\ k' = 0
  /\ LoopTest(0, Append(messages, [sender |-> "user", text |-> userInput]))
  /\ UNCHANGED << thought, thoughtCount, step, plannerText, finals, consumed, timer,
                  inProgress, cur, invocations, uuidCount, proposed, pureVars >>

RerunNext ==
  \/ \E u \in UserInputs : Run(u)
  \/ \E u \in RerunInputs : Rerun(u)
  \/ \E s \in RerunSteps : StubResolve(s)
  \/ DispatchUnknown
  \/ InvokeTool
  \/ \E v \in ToolValues : ToolResolve(v)
  \/ \E e \in ToolErrors : ToolReject(e)
  \/ TimerFire
  \/ \E n \in inProgress : LateSettle(n)

RerunSpec == Init /\ [][RerunNext]_vars

\* every provider call eventually resolves, timers eventually fire and the
\* synchronous code of run() runs on; a tool implementation may never settle
FairSpec ==
  /\ Spec
  /\ WF_vars(\E s \in Steps : StubResolve(s))
  /\ WF_vars(\E p \in PlannerTexts : ProviderResolve(p))
  /\ WF_vars(DispatchUnknown)
  /\ WF_vars(InvokeTool)
  /\ WF_vars(TimerFire)

\* ------------------------------------------------------------------------
\* sanitizeObservation alone
\* ------------------------------------------------------------------------

\* an agent whose obsTruncateChars is limit is about to sanitize value
SanitizerInit ==
  /\ AgentInit
  /\ value \in SanitizerValues
  /\ limit \in Limits
  /\ obs = NotCalled
  /\ ParserIdle
  /\ ProviderIdle
  /\ ConstructorIdle

\* the call sanitizeObservation(value) returns
Sanitize ==
  /\ ~ obs.returned
  /\ obs' = [returned |-> TRUE, text |-> sanitizeObservationAt(value, limit)]
  /\ UNCHANGED << pc, i, history, messages, thought, thoughtCount, completions, step,
                  plannerText, finals, consumed, calls, k, timer, inProgress, cur,
                  invocations, uuidCount, proposed, runs, value, limit, input, parsed,
                  providerPc, attempt, requests, delays, lastErr, completion, supplied, built >>

SanitizerNext == Sanitize

SanitizerSpec == SanitizerInit /\ [][SanitizerNext]_vars

\* ------------------------------------------------------------------------
\* tryParseToolCall alone
\* ------------------------------------------------------------------------

\* the text input is about to be parsed
ParserInit ==
  /\ AgentInit
  /\ SanitizerIdle
  /\ input \in ParserInputs
  /\ parsed = NotParsed
  /\ ProviderIdle
  /\ ConstructorIdle

\* the call tryParseToolCall(input) returns
Parse ==
  /\ ~ parsed.returned
  /\ parsed' = [returned |-> TRUE, step |-> tryParseToolCall(input)]
  /\ UNCHANGED << pc, i, history, messages, thought, thoughtCount, completions, step,
                  plannerText, finals, consumed, calls, k, timer, inProgress, cur,
                  invocations, uuidCount, proposed, runs, value, limit, obs, input,
                  providerPc, attempt, requests, delays, lastErr, completion, supplied, built >>

ParserNext == Parse

ParserSpec == ParserInit /\ [][ParserNext]_vars

\* ------------------------------------------------------------------------
\* getCompletion alone (GeminiProvider; OpenAiProvider has the same loop)
\* ------------------------------------------------------------------------

\* what requestOnce rejects with: the errors of lines 212 and 219, the
\* TypeError of fetch, and an Error whose message is empty
RequestErrors ==
  { [t |-> "Error", message |-> << "Gemini API error: ", "HTTP 500" >>],
    [t |-> "Error", message |-> << "Gemini JSON parse error: ", "Unexpected token" >>],
    [t |-> "Error", message |-> << "Failed to fetch" >>],
    [t |-> "Error", message |-> << >>] }

\* the texts requestOnce resolves to
ResponseTexts == PlannerTexts \cup ToolShapedTexts

\* lines 238-242: the decision returned after the last attempt failed
ProviderErrorStep(e) ==
  [toolCalls |-> << >>,
   content |-> Str(<< "[ProviderError Gemini] " >>
                     \o (IF e.message # << >> THEN e.message ELSE << "unknown error" >>)),
   stopReason |-> "continue"]

\* a call of getCompletion is about to be made
ProviderInit ==
  /\ AgentInit
  /\ SanitizerIdle
  /\ ParserIdle
  /\ ProviderIdle
  /\ ConstructorIdle

\* getCompletion(history, tools) is called: lines 171-229, up to the first
\* call of requestOnce
GetCompletion ==
  /\ providerPc = "idle"
  /\ providerPc' = "request"
  /\ attempt' = 0
  /\ requests' = 1
  /\ UNCHANGED << pc, i, history, messages, thought, thoughtCount, completions, step,
                  plannerText, finals, consumed, calls, k, timer, inProgress, cur,
                  invocations, uuidCount, proposed, runs, value, limit, obs, input,
                  parsed, delays, lastErr, completion, supplied, built >>

\* requestOnce resolves to the text p: lines 229-230
RequestSucceeds(p) ==
  /\ providerPc = "request"
  /\ providerPc' = "resolved"
  /\ completion' = tryParseToolCall(p)
  /\ UNCHANGED << pc, i, history, messages, thought, thoughtCount, completions, step,
                  plannerText, finals, consumed, calls, k, timer, inProgress, cur,
                  invocations, uuidCount, proposed, runs, value, limit, obs, input,
                  parsed, attempt, requests, delays, lastErr, supplied, built >>

\* requestOnce rejects with e: lines 231-234, the timer is set
RequestFails(e) ==
  /\ providerPc = "request"
  /\ providerPc' = "delay"
  /\ lastErr' = e
  /\ delays' = Append(delays, baseDelayMs * 2 ^ attempt)
  /\ UNCHANGED << pc, i, history, messages, thought, thoughtCount, completions, step,
                  plannerText, finals, consumed, calls, k, timer, inProgress, cur,
                  invocations, uuidCount, proposed, runs, value, limit, obs, input,
                  parsed, attempt, requests, completion, supplied, built >>

\* variant of DelayElapses: the last error is thrown after the last attempt
DelayElapsesMutant ==
  /\ providerPc = "delay"
  /\ attempt' = attempt + 1
  /\ IF attempt + 1 < maxAttempts
     THEN /\ providerPc' = "request"
          /\ requests' = requests + 1
          /\ UNCHANGED completion
     ELSE /\ providerPc' = "rejected"
          /\ UNCHANGED << requests, completion >>
  /\ UNCHANGED << pc, i, history, messages, thought, thoughtCount, completions, step,
                  plannerText, finals, consumed, calls, k, timer, inProgress, cur,
                  invocations, uuidCount, proposed, runs, value, limit, obs, input,
                  parsed, delays, lastErr, supplied, built >>

\* the timer of line 234 fires: attempt++ and the loop test of line 227,
\* then the next call of requestOnce, or the return of lines 238-242
DelayElapses ==
  /\ providerPc = "delay"
  /\ attempt' = attempt + 1
  /\ IF attempt + 1 < maxAttempts
     THEN /\ providerPc' = "request"
          /\ requests' = requests + 1
          /\ UNCHANGED completion
     ELSE /\ providerPc' = "resolved"
          /\ completion' = ProviderErrorStep(lastErr)
          /\ UNCHANGED requests
  /\ UNCHANGED << pc, i, history, messages, thought, thoughtCount, completions, step,
                  plannerText, finals, consumed, calls, k, timer, inProgress, cur,
                  invocations, uuidCount, proposed, runs, value, limit, obs, input,
                  parsed, delays, lastErr, supplied, built >>

ProviderNext ==
  \/ GetCompletion
  \/ \E p \in ResponseTexts : RequestSucceeds(p)
  \/ \E e \in RequestErrors : RequestFails(e)
  \/ DelayElapses

ProviderSpec == ProviderInit /\ [][ProviderNext]_vars

\* ------------------------------------------------------------------------
\* the constructor alone
\* ------------------------------------------------------------------------

\* the entries of a tools argument: two named functions, a function
\* without a name (or with an empty one), an entry that is null or has no
\* function
ToolEntries ==
  { [hasFunction |-> TRUE,  name |-> "calculator"],
    [hasFunction |-> TRUE,  name |-> "create_file"],
    [hasFunction |-> TRUE,  name |-> ""],
    [hasFunction |-> FALSE, name |-> ""] }

\* the tools arguments of the model
ToolLists == Lists(ToolEntries, MaxTools)

\* new Agent(llmProvider, supplied, ...) is about to run
ConstructorInit ==
  /\ AgentInit
  /\ SanitizerIdle
  /\ ParserIdle
  /\ ProviderIdle
  /\ supplied \in ToolLists
  /\ built = NotBuilt

\* lines 10-14: the registry is built
Construct ==
  /\ ~ built.constructed
  /\ built' = [constructed |-> TRUE, keys |-> registryOf(supplied)]
  /\ UNCHANGED << pc, i, history, messages, thought, thoughtCount, completions, step,
                  plannerText, finals, consumed, calls, k, timer, inProgress, cur,
                  invocations, uuidCount, proposed, runs, value, limit, obs, input,
                  parsed, providerPc, attempt, requests, delays, lastErr, completion,
                  supplied >>

ConstructorNext == Construct

ConstructorSpec == ConstructorInit /\ [][ConstructorNext]_vars

\* ------------------------------------------------------------------------
\* run() of an agent whose obsTruncateChars was set to a small limit
\* ------------------------------------------------------------------------

\* the agent is idle and its obsTruncateChars is at most MaxLimit
LimitInit ==
  /\ AgentInit
  /\ value = Null
  /\ limit \in 0..MaxLimit
  /\ obs = NotCalled
  /\ ParserIdle
  /\ ProviderIdle
  /\ ConstructorIdle

LimitNext ==
  \/ \E u \in UserInputs : Run(u)
  \/ \E s \in RerunSteps : StubResolve(s)
  \/ DispatchUnknown
  \/ InvokeTool
  \/ \E v \in ToolValues : ToolResolve(v)
  \/ \E e \in ToolErrors : ToolReject(e)
  \/ TimerFire
  \/ \E n \in inProgress : LateSettle(n)

LimitSpec == LimitInit /\ [][LimitNext]_vars

\* ------------------------------------------------------------------------
\* Properties
\* ------------------------------------------------------------------------

\* the text contains the piece
Contains(text, piece) == \E n \in DOMAIN text : text[n] = piece

\* the number of times the stuck-run message was given to onMessage
StuckCount ==
  Cardinality({ n \in DOMAIN messages :
                  messages[n] = [sender |-> "agent", text |-> StuckMessage] })

\* run() has returned or rejected
Ended == pc \in { "done", "thrown" }

\* the positions of the assistant turns that carry tool_calls
CallTurns ==
  { a \in DOMAIN history : history[a].role = "assistant" /\ history[a].hasToolCalls }

\* the position of the last assistant turn that carries tool_calls
LastCallTurn == CHOOSE a \in CallTurns : \A b \in CallTurns : b <= a

\* the variables run() itself changes
runVars == << pc, i, history, messages, thought, thoughtCount, completions, calls, k >>

\* C1: getCompletion is called at most maxTurns times in a run; a run in
\* which no consumed decision was a final answer calls it exactly maxTurns
\* times, then gives the stuck-run message to onMessage exactly once, as
\* the last message, and returns normally.
C1_TurnCeiling ==
  /\ completions <= maxTurns
  /\ (Ended /\ finals = 0) =>
        /\ pc = "done"
        /\ completions = maxTurns
        /\ StuckCount = 1
        /\ messages[Len(messages)].text = StuckMessage

\* C2: once a consumed decision was a final answer, run() has returned, no
\* further getCompletion call was made (every call made was consumed), the
\* last turn of the history is the assistant turn with the text of that
\* decision, and the stuck-run message was not emitted.
C2_FinalEndsRun ==
  finals > 0 =>
    /\ pc = "done"
    /\ FinalAnswer(step)
    /\ completions = consumed
    /\ history[Len(history)] = AssistantTurn(step.content.s)
    /\ messages[Len(messages)] = [sender |-> "agent", text |-> step.content.s]
    /\ StuckCount = 0

\* C2 witness: a final answer on the first call ended the run after one
\* planning round.
C2_Witness ==
  /\ pc = "done"
  /\ finals = 1
  /\ completions = 1
  /\ Len(history) = 2
  /\ step.stopReason = "stop"

\* C3: the run has ended before the turn ceiling exactly when a consumed
\* decision was a final answer (non-empty string content, no tool calls,
\* finality stop reason); in particular an iteration that dispatched tool
\* calls does not end the run.
C3_EndsEarlyIffFinal ==
  (Ended /\ i < maxTurns) <=> finals > 0

\* C4: once the iteration of a tool-call decision is complete, its
\* assistant turn is followed by exactly one tool turn per entry of its
\* tool_calls, in the order of the entries.
C4_OneToolTurnPerCall ==
  \A a \in CallTurns :
    (a = LastCallTurn /\ pc \in { "acting", "awaitTool", "thrown" })
    \/ LET n == Len(history[a].tool_calls)
       IN  /\ a + n <= Len(history)
           /\ \A j \in 1..n :
                 /\ history[a + j].role = "tool"
                 /\ history[a + j].tool_call_id = history[a].tool_calls[j].id
                 /\ history[a + j].content[2] = history[a].tool_calls[j].name
           /\ a + n < Len(history) => history[a + n + 1].role # "tool"

\* C4 witness: a completed iteration of two calls with different outcomes
\* (a failure and an unknown name).
C4_Witness ==
  /\ pc = "planning"
  /\ Len(history) = 4
  /\ history[2].hasToolCalls
  /\ Len(history[2].tool_calls) = 2
  /\ Contains(history[3].content, "' failed: ")
  /\ Contains(history[4].content, "Unknown tool '")

\* the planner text is a tool_calls array of at least two entries that all
\* have a name and none an explicit id
SameNameNoId(p) ==
  /\ p.json.tool_calls.isArray
  /\ Len(p.json.tool_calls.items) >= 2
  /\ \A n \in DOMAIN p.json.tool_calls.items :
        /\ p.json.tool_calls.items[n].id = ""
        /\ p.json.tool_calls.items[n].name = p.json.tool_calls.items[1].name
        /\ p.json.tool_calls.items[n].name # ""

\* C5: the calls of a decision parsed from a tool_calls array whose
\* entries share a name and carry no id have pairwise distinct ids in the
\* recorded assistant turn, and its tool turns pairwise distinct
\* tool_call_ids.
C5_DistinctIds ==
  (SameNameNoId(plannerText) /\ CallTurns # {}) =>
    LET a == LastCallTurn
    IN  /\ \A m, n \in DOMAIN history[a].tool_calls :
              m # n => history[a].tool_calls[m].id # history[a].tool_calls[n].id
        /\ \A m, n \in (a + 1)..Len(history) :
              m # n => history[m].tool_call_id # history[n].tool_call_id

\* C6: every tool turn follows an assistant turn with tool_calls, only
\* tool turns lie between the two, and its tool_call_id is the id of one
\* of the calls of that assistant turn.
C6_ToolTurnsReferToCalls ==
  \A t \in DOMAIN history :
    history[t].role = "tool" =>
      \E a \in CallTurns :
        /\ a < t
        /\ \A m \in (a + 1)..t : history[m].role = "tool"
        /\ \E j \in DOMAIN history[a].tool_calls :
              history[a].tool_calls[j].id = history[t].tool_call_id

\* C6 witness: a tool turn of a second tool-call iteration, whose id was
\* generated.
C6_Witness ==
  /\ Cardinality(CallTurns) = 2
  /\ history[Len(history)].role = "tool"
  /\ history[Len(history)].tool_call_id = randomUUID(2)

\* C7: the dispatch of a call whose name is not in the registry calls no
\* tool implementation, appends exactly one tool turn that says the tool
\* is unknown, does not reject run(), and goes on with the next call of
\* the turn or, after the last call, with the next iteration.
C7_UnknownToolContinues ==
  [][ (pc = "acting" /\ calls[k].name \notin registry /\ runVars' # runVars) =>
        /\ invocations' = invocations
        /\ inProgress' = inProgress
        /\ Len(history') = Len(history) + 1
        /\ SubSeq(history', 1, Len(history)) = history
        /\ history'[Len(history')].role = "tool"
        /\ history'[Len(history')].tool_call_id = calls[k].id
        /\ Contains(history'[Len(history')].content, "Unknown tool '")
        /\ pc' # "thrown"
        /\ k < Len(calls) => (pc' = "acting" /\ k' = k + 1 /\ calls' = calls)
        /\ (k = Len(calls) /\ i + 1 < maxTurns) =>
              (pc' = "planning" /\ completions' = completions + 1)
        /\ (k = Len(calls) /\ i + 1 >= maxTurns) =>
              (pc' = "done" /\ messages'[Len(messages')].text = StuckMessage)
    ]_vars

\* C7 witness: an unknown call was dispatched and the next call of the
\* same turn is being awaited.
C7_Witness ==
  /\ pc = "awaitTool"
  /\ k = 2
  /\ Contains(history[Len(history)].content, "Unknown tool '")
  /\ invocations = 1

\* C8: when the timer fires while the awaited implementation has not
\* settled, exactly one tool turn that tells of the failure and the timeout
\* is appended, the implementation is not called again, and the loop goes
\* on with the next call or iteration; and every run that was started
\* ends, whatever the tools do.
C8_TimeoutFailsAndRunEnds ==
  /\ [][ (pc = "awaitTool" /\ runVars' # runVars /\ cur \in inProgress') =>
          /\ invocations' = invocations
          /\ ~ timer'
          /\ Len(history') = Len(history) + 1
          /\ SubSeq(history', 1, Len(history)) = history
          /\ history'[Len(history')].role = "tool"
          /\ history'[Len(history')].tool_call_id = calls[k].id
          /\ Contains(history'[Len(history')].content, "' failed: ")
          /\ Contains(history'[Len(history')].content, "tool timeout after ")
          /\ k < Len(calls) => (pc' = "acting" /\ k' = k + 1)
          /\ k = Len(calls) => pc' \in { "planning", "done" }
      ]_vars
  /\ (pc # "idle") ~> Ended

\* C8 witness: a call timed out, its implementation is still unsettled,
\* and the next planning round has begun.
C8_Witness ==
  /\ pc = "planning"
  /\ Contains(history[Len(history)].content, "tool timeout after ")
  /\ cur \in inProgress

\* C9: no failure of a tool call makes run() reject.
C9_NoToolFailureEscapes == pc # "thrown"

\* C10: at no time are two tool implementations called by the run in
\* progress together.
C10_NoInterleaving == Cardinality(inProgress) <= 1

\* the stringified input of sanitizeObservation alone: String(value) of a
\* primitive, the JSON text of an object
Stringified ==
  IF value.t = "object" THEN stringify(value) ELSE value.s

\* the text has the characters of part at offset n
HasAt(text, part, n) ==
  /\ n + Len(part) <= Len(text)
  /\ SubSeq(text, n + 1, n + Len(part)) = part

\* the text has part as a substring
HasSubstring(text, part) == \E n \in 0..Len(text) : HasAt(text, part, n)

\* the object value refers to itself, directly or through its nested object
SelfReferring ==
  /\ value.t = "object"
  /\ \E m \in DOMAIN value.heap[1] : value.heap[1][m].val.t = "ref"

C16_CircularMarked ==
  (obs.returned /\ SelfReferring) => HasSubstring(obs.text, CircularMarker)

\* C17: what sanitizeObservation returns has no raw < or > and no & that
\* does not start an entity.
C17_HtmlEscaped ==
  obs.returned =>
    \A n \in DOMAIN obs.text :
      /\ obs.text[n] \notin { "<", ">" }
      /\ obs.text[n] = "&" =>
            (n < Len(obs.text) /\ obs.text[n + 1] \in { "amp;", "lt;", "gt;" })

\* C13: whatever the text, tryParseToolCall returns either a non-empty
\* list of calls that all have a name, with no content and stopReason
\* "continue", or no calls and a content string (possibly empty) with a
\* stop reason; an exception raised inside it is caught.
C13_ParserTotal ==
  parsed.returned =>
    LET d == parsed.step
    IN  \/ /\ d.toolCalls # << >>
           /\ \A n \in DOMAIN d.toolCalls : d.toolCalls[n].name # ""
           /\ d.content = Null
           /\ d.stopReason = "continue"
        \/ /\ d.toolCalls = << >>
           /\ d.content.t = "string"
           /\ d.stopReason \in { "final", "continue" }

\* C13 witness: the text null, on which reading obj.final throws, was
\* parsed to its own text as content.
C13_Witness ==
  /\ parsed.returned
  /\ input.json.t = "null"
  /\ parsed.step = ContentStep(Str(<< "null" >>), "continue")

\* C14: parsing the text JSON.stringify({ final: x }) gives the content x,
\* the stop reason "final" and no tool calls.
C14_FinalRoundTrip ==
  (parsed.returned /\ "final" \in DOMAIN input) =>
    parsed.step = ContentStep(Str(input.final), "final")

ContentDecision(s) ==
  /\ s.toolCalls = << >>
  /\ s.content.t = "string"
  /\ s.content.s # << >>

\* the decision has neither tool calls nor a non-empty string content
EmptyDecision(s) == s.toolCalls = << >> /\ ~ ContentDecision(s)

\* onMessage('agent', t)
AgentMsg(t) == [sender |-> "agent", text |-> t]

\* C11: onMessage receives the user input once, at the start of the run,
\* then the text of every consumed decision that is non-empty content
\* without tool calls, in order, and besides these only the stuck-run
\* message when the turn ceiling is reached; it never receives an
\* observation, a tool failure text, the unknown-tool text or the
\* replanning note.
C11_MessageChannel ==
  /\ [](/\ pc # "idle" =>
              (Len(messages) >= 1 /\ messages[1] = [sender |-> "user", text |-> history[1].content])
        /\ \A n \in DOMAIN messages :
              /\ n > 1 => messages[n].sender = "agent"
              /\ ~ Contains(messages[n].text, "OBSERVATION[")
              /\ ~ Contains(messages[n].text, "' failed: ")
              /\ ~ Contains(messages[n].text, "Unknown tool '")
              /\ ~ Contains(messages[n].text, "Result: ")
              /\ messages[n].text # ReplanNote)
  /\ [][ /\ messages' # messages =>
               \/ /\ pc = "idle"
                  /\ messages' = << [sender |-> "user", text |-> history'[1].content] >>
               \/ /\ pc = "planning"
                  /\ consumed' = consumed + 1
                  /\ ContentDecision(step')
                  /\ \/ messages' = Append(messages, AgentMsg(step'.content.s))
                     \/ /\ pc' = "done"
                        /\ i' = maxTurns
                        /\ messages' = Append(Append(messages, AgentMsg(step'.content.s)),
                                               AgentMsg(StuckMessage))
               \/ /\ pc' = "done"
                  /\ i' = maxTurns
                  /\ messages' = Append(messages, AgentMsg(StuckMessage))
         /\ (consumed' = consumed + 1 /\ ContentDecision(step')) =>
               /\ Len(messages') > Len(messages)
               /\ messages'[Len(messages) + 1] = AgentMsg(step'.content.s)
     ]_vars

\* C11 witness: after tool calls that failed and were unknown, and a
\* content decision, onMessage has received the user input and the content
\* only.
C11_Witness ==
  /\ Len(history) = 5
  /\ Contains(history[3].content, "' failed: ")
  /\ Contains(history[4].content, "Unknown tool '")
  /\ messages = << [sender |-> "user", text |-> << "2+2" >>], AgentMsg(<< "4" >>) >>

\* the planner text is a JSON object with a tool_calls array or a tool or
\* name field, or has one embedded
ToolShaped(p) ==
  \/ p.json.tool_calls.isArray
  \/ p.json.tool # ""
  \/ p.json.name # ""
  \/ p.toolMatch.matched

\* C12: when the planner text is tool-call-shaped JSON, onMessage is not
\* called with that text.
C12_NoToolJsonInMessages ==
  ToolShaped(plannerText) =>
    \A n \in DOMAIN messages :
      messages[n].text \notin { plannerText.text, plannerText.cleaned }

\* C19: consuming a decision with neither tool calls nor non-empty string
\* content appends exactly the replanning turn, calls onThought once and
\* onMessage not at all, and ends the iteration: the next getCompletion is
\* called, or at the turn ceiling the loop is left; and a run that ended
\* with nothing but replanning turns has maxTurns of them.
C19_Replanning ==
  /\ [][ (pc = "planning" /\ consumed' = consumed + 1 /\ EmptyDecision(step')) =>
           /\ history' = Append(history, AssistantTurn(ReplanNote))
           /\ thoughtCount' = thoughtCount + 1
           /\ thought' = << "[plan] Model produced no content and no tool. Replanning." >>
           /\ i' = i + 1
           /\ i + 1 < maxTurns =>
                 (pc' = "planning" /\ completions' = completions + 1 /\ messages' = messages)
           /\ i + 1 >= maxTurns =>
                 (pc' = "done" /\ messages' = Append(messages, AgentMsg(StuckMessage)))
     ]_vars
  /\ []((pc = "done" /\ \A n \in 2..Len(history) : history[n] = AssistantTurn(ReplanNote)) =>
          Len(history) = maxTurns + 1)

\* C19 witness: every decision of the run was empty and the run ended at
\* the turn ceiling.
C19_Witness ==
  /\ pc = "done"
  /\ Len(history) = maxTurns + 1
  /\ \A n \in 2..Len(history) : history[n] = AssistantTurn(ReplanNote)
  /\ messages = << [sender |-> "user", text |-> << "2+2" >>], AgentMsg(StuckMessage) >>

\* C20: when run() starts, on a new agent or on one that ran before, the
\* history is exactly the user turn with the input of that run; during the
\* run the history only grows at its end; it has exactly one user turn,
\* the first.
C20_HistoryLifecycle ==
  /\ [](pc # "idle" =>
          /\ Len(history) >= 1
          /\ history[1].role = "user"
          /\ \A n \in 2..Len(history) : history[n].role # "user")
  /\ [][ /\ runs' # runs =>
               /\ runs' = runs + 1
               /\ Len(messages') > Len(messages)
               /\ messages'[Len(messages) + 1].sender = "user"
               /\ history' = << UserTurn(messages'[Len(messages) + 1].text) >>
         /\ runs' = runs =>
               /\ Len(history') >= Len(history)
               /\ SubSeq(history', 1, Len(history)) = history
     ]_vars

\* C20 witness: the second run of an agent whose first run recorded tool
\* turns has begun; the history is the user turn of the second input.
C20_Witness ==
  /\ runs = 2
  /\ pc = "planning"
  /\ invocations >= 1
  /\ history = << UserTurn(<< "3+3" >>) >>
  /\ Len(messages) >= 3


\* a text that is valid JSON and has none of the shapes the strict cases
\* honor: no string field final, no tool_calls entry with a name, no
\* top-level tool or name, not a string
Unhonored(p) ==
  /\ p.json.t \in { "object", "number", "array", "null" }
  /\ ~ p.json.final.isString
  /\ parseCalls(p.json.tool_calls.items, 0) = << >>
  /\ p.json.tool = ""
  /\ p.json.name = ""

\* C21: a planner text that is valid JSON but has none of the honored
\* top-level shapes is returned as plain content equal to the cleaned
\* text, with stopReason "continue": never "final", never tool calls.
C21_UnhonoredJsonIsContent ==
  (parsed.returned /\ Unhonored(input)) =>
    parsed.step = ContentStep(Str(input.cleaned), "continue")

\* C24: the strict cases are tried in a fixed order and the first that
\* applies decides: a string field final gives the final answer and no
\* calls whatever else the object holds; otherwise the named entries of a
\* tool_calls array are the calls, whatever the top-level tool / name;
\* otherwise the top-level tool / name is the single call; otherwise a
\* string that is not blank is the content; the expressions and the
\* fallback decide only when none of these did.
C24_StrictOrder ==
  (parsed.returned /\ input.json.t \in { "object", "string" }) =>
    LET obj == input.json
        named == parseCalls(obj.tool_calls.items, 0)
        d == parsed.step
    IN  IF obj.final.isString
        THEN d = ContentStep(Str(obj.final.s), "final")
        ELSE IF named # << >>
        THEN d = [toolCalls |-> named, content |-> Null, stopReason |-> "continue"]
        ELSE IF obj.tool # "" \/ obj.name # ""
        THEN d = SingleCallStep(IF obj.tool # "" THEN obj.tool ELSE obj.name,
                                robustParseArgs(obj.arguments))
        ELSE IF obj.t = "string" /\ trim(obj.s) # << >>
        THEN d = ContentStep(Str(trim(obj.s)), "continue")
        ELSE d = parseHeuristics(input)

\* C24 witness: an object with a string final, a named tool_calls entry
\* and a top-level tool, in which both expressions match something else,
\* was parsed to its final answer.
C24_Witness ==
  /\ parsed.returned
  /\ input.json.final.isString
  /\ parseCalls(input.json.tool_calls.items, 0) # << >>
  /\ input.json.tool # ""
  /\ input.finalMatch.matched
  /\ input.finalMatch.group # input.json.final.s
  /\ input.toolMatch.matched
  /\ parsed.step = ContentStep(Str(input.json.final.s), "final")

\* the positions of the Tool turns of the history
ToolTurns == { n \in DOMAIN history : history[n].role = "tool" }

\* some Tool turn holds the piece in its content
SomeToolTurnHas(piece) ==
  \E n \in ToolTurns : Contains(history[n].content, piece)

\* C22: in all three outcomes of runWithTimeout (the tool resolved, the
\* tool rejected, the timer fired) the timer is cleared before run() goes
\* on: a timer is pending only while run() awaits runWithTimeout, never
\* while it is planning or after it has returned or rejected.
C22_TimerCleared == timer => pc = "awaitTool"

\* C22 witness: the run is planning or has returned with no timer pending,
\* after the timer of one call fired and the tool of another rejected.
C22_Witness ==
  /\ pc \in { "planning", "done" }
  /\ ~ timer
  /\ SomeToolTurnHas("boom")
  /\ SomeToolTurnHas("tool timeout after ")
  /\ invocations = 2

\* C23: every consumed decision, whichever branch it takes, calls
\* onThought at least once, and every dispatched call (unknown name, or an
\* invoked implementation, whatever its outcome) calls it at least once
\* more.
C23_ThoughtPerIteration ==
  [][ /\ (consumed' = consumed + 1) => (thoughtCount' >= thoughtCount + 1)
      /\ (pc = "acting" /\ (Len(history') > Len(history) \/ invocations' > invocations))
           => (thoughtCount' >= thoughtCount + 1) ]_vars

\* C23 witness: one decision with two calls was consumed and both calls,
\* one of them of an unknown tool, were dispatched, with at least three
\* calls of onThought.
C23_Witness ==
  /\ pc = "planning"
  /\ consumed = 1
  /\ Cardinality(ToolTurns) = 2
  /\ SomeToolTurnHas("Unknown tool '")
  /\ thoughtCount >= 3

\* C27: every Assistant turn that carries tool_calls lists at least one
\* call; a decision whose calls all lack a name does not leave an
\* Assistant turn with an empty tool_calls list.
C27_CallTurnsListACall ==
  \A a \in CallTurns : Len(history[a].tool_calls) >= 1

\* C28: when an implementation that run() no longer awaits settles, the
\* run is not affected: no turn is appended or changed, no callback is
\* called, and run() neither rejects nor moves.
C28_LateSettleInert ==
  [][ (/\ inProgress' # inProgress
       /\ inProgress' \subseteq inProgress
       /\ (pc # "awaitTool" \/ cur \in inProgress'))
      => UNCHANGED << runVars, timer, step, consumed, finals >> ]_vars

\* C28 witness: the failure turn of a timed-out call is in the history and
\* every implementation has settled since, so the one that timed out
\* settled late.
C28_Witness ==
  /\ SomeToolTurnHas("tool timeout after ")
  /\ inProgress = {}
  /\ pc \in { "planning", "done" }

\* C25: the registry indexes only entries that have a name: no entry
\* whose function has no name (undefined or empty) is stored, and every
\* key is a non-empty tool name.
C25_RegistryKeysNamed ==
  built.constructed => \A key \in built.keys : key # ""

\* C26: the content of every Tool turn is "OBSERVATION[<name>]: "
\* followed by an observation of at most obsTruncateChars + 1 characters,
\* whatever the outcome of the dispatch.
C26_ObservationBounded ==
  \A n \in ToolTurns :
     LET content == history[n].content
     IN  /\ Len(content) >= 3
         /\ content[1] = "OBSERVATION["
         /\ content[3] = "]: "
         /\ Len(content) - 3 <= limit + 1
====
